---- MODULE Spec2Model ----
(***************************************************************************)
(* GroupSplitter.__build_groups (src/GroupSplitter.py): the greedy         *)
(* geographic grouping of users into a requested number of groups.         *)
(*                                                                         *)
(* A user is a record [id, latlon], latlon = <<latitude, longitude>>.      *)
(* Python lists are sequences; a Python index i is the TLA+ index i + 1.   *)
(* One action per statement block of the while loop; pc is the position    *)
(* of the single thread of control.                                        *)
(***************************************************************************)
EXTENDS Integers, Sequences, FiniteSets

(* Bounds of the model. *)
MaxUsers == 7
MaxGroups == 3

VARIABLES
    users,           \* user_list, the argument of __build_groups (line 179)
    groups,          \* groups, the requested number of groups (line 179)
    user_list_copy,  \* the unassigned pool, longitude-ascending (line 185)
    groups_list,     \* the finalized groups (line 189)
    num_groups,      \* the counter and seed index (line 190)
    user,            \* the seed of the current iteration (line 193)
    current_group,   \* the candidate group (line 195)
    pc,              \* "start", "while", "for", "if", "done", "error"
    iterations,      \* how many times the loop body was entered (line 193)
    split_of         \* per finalized group: 0, or for a group made by the
                     \*   split (line 216) len(groups_list[-1]) at line 213

vars == <<users, groups, user_list_copy, groups_list, num_groups, user,
          current_group, pc, iterations, split_of>>

NoUser == [id |-> 0, latlon |-> <<0, 0>>]

(* The coordinates the rows are drawn from: <<latitude, longitude>>, in    *)
(* whole units so that the cosine of line 171 is a table lookup.           *)
Coords == {<<0, 0>>, <<1, 0>>, <<1, 1>>}

(* The rows __read_csv returns: ids are unique (the row number here),      *)
(* latlon is the parsed coordinate pair.                                    *)
UserLists ==
    UNION { { [i \in 1..n |-> [id |-> i, latlon |-> f[i]]] : f \in [1..n -> Coords] }
            : n \in 0..MaxUsers }

(* A rounding-up written as "quotient plus one". *)
CeilDivPlusOne(n, g) == (n \div g) + 1

(* int(math.ceil(len(users) / int(groups))), line 46. *)
CeilDiv(n, g) == (n + g - 1) \div g

num_per_group == CeilDiv(Len(users), groups)

(* 1000 * cos(s / 2) rounded, s = a_lat + b_lat in whole units, line 171.  *)
Cos1000(s) == <<1000, 878, 540, 71, -416, -801, -990>>[s + 1]

(* __distance, lines 162-175, as (distance * 1000 / 6371)^2: the square    *)
(* root and the factor 6371 are increasing, so the order of two distances  *)
(* from the same seed, the only thing __build_groups uses, is the order of *)
(* these numbers.                                                          *)
Distance(A, B) ==
    LET x == (B[2] - A[2]) * Cos1000(A[1] + B[1])
        y == (B[1] - A[1]) * 1000
    IN  x * x + y * y

(* The values held by a list. *)
Range(s) == {s[i] : i \in DOMAIN s}

(* sorted(s, key=...): ascending by key[x], stable; key is the key         *)
(* function tabulated on the values of s.                                  *)
Sorted(s, key) ==
    LET prefix[i \in 0..Len(s)] ==
            IF i = 0 THEN <<>>
            ELSE LET t == prefix[i - 1]
                     x == s[i]
                     pos == Cardinality({j \in 1..Len(t) : key[t[j]] <= key[x]})
                 IN  SubSeq(t, 1, pos) \o <<x>> \o SubSeq(t, pos + 1, Len(t))
    IN  prefix[Len(s)]

(* list.index(x): the first position holding a value equal to x. *)
Index(s, x) == CHOOSE i \in 1..Len(s) : s[i] = x /\ \A j \in 1..(i - 1) : s[j] # x

(* del s[i] *)
Del(s, i) == SubSeq(s, 1, i - 1) \o SubSeq(s, i + 1, Len(s))

(* s[k:] and s[:k] for a Python index k >= 0 *)
SliceFrom(s, k) == IF k >= Len(s) THEN <<>> ELSE SubSeq(s, k + 1, Len(s))
SliceTo(s, k) == IF k >= Len(s) THEN s ELSE SubSeq(s, 1, k)

(* The accept test with < for <=. *)
AcceptsStrict(group) == Len(group) < num_per_group

(* The accept test closing the group one member before the target size. *)
AcceptsShort(group) == Len(group) + 1 < num_per_group

(* The accept test of the for loop, line 199. *)
Accepts(group) == Len(group) <= num_per_group

(* The for loop without the del of line 201. *)
ForLoopNoDel(view, pool) ==
    LET after[i \in 0..Len(view)] ==
            IF i = 0 THEN <<<<>>, pool>>
            ELSE LET prev == after[i - 1]
                 IN  IF Len(prev[1]) <= num_per_group
                     THEN <<Append(prev[1], view[i]), prev[2]>>
                     ELSE prev
    IN  after[Len(view)]

(* The for loop, lines 196-203, over the sorted view: after[i] is          *)
(* <<current_group, user_list_copy>> after the i-th element of the view;   *)
(* once the accept test fails the loop breaks and nothing changes.         *)
ForLoop(view, pool) ==
    LET after[i \in 0..Len(view)] ==
            IF i = 0 THEN <<<<>>, pool>>
            ELSE LET prev == after[i - 1]
                 IN  IF Accepts(prev[1])
                     THEN <<Append(prev[1], view[i]),
                            Del(prev[2], Index(prev[2], view[i]))>>
                     ELSE prev
    IN  after[Len(view)]

Init ==
    /\ users \in UserLists
    /\ groups \in 1..MaxGroups
    /\ user_list_copy = <<>>
    /\ groups_list = <<>>
    /\ num_groups = 0
    /\ user = NoUser
    /\ current_group = <<>>
    /\ pc = "start"
    /\ iterations = 0
    /\ split_of = <<>>

(* Lines 185-190: the longitude-sorted copy, the empty result. *)
SortUsers ==
    /\ pc = "start"
    /\ user_list_copy' = Sorted(users, [lon \in Range(users) |-> lon.latlon[2]])
    /\ groups_list' = <<>>
    /\ num_groups' = 0
    /\ pc' = "while"
    /\ UNCHANGED <<users, groups, user, current_group, iterations, split_of>>

(* Lines 192-193: the loop test holds and the seed lookup succeeds. *)
SelectSeed ==
    /\ pc = "while"
    /\ num_groups <= groups - 1
    /\ num_groups < Len(user_list_copy)
    /\ user' = user_list_copy[num_groups + 1]
    /\ iterations' = iterations + 1
    /\ pc' = "for"
    /\ UNCHANGED <<users, groups, user_list_copy, groups_list, num_groups,
                   current_group, split_of>>

(* Line 193: user_list_copy[num_groups] raises IndexError. *)
SeedIndexError ==
    /\ pc = "while"
    /\ num_groups <= groups - 1
    /\ num_groups >= Len(user_list_copy)
    /\ iterations' = iterations + 1
    /\ pc' = "error"
    /\ UNCHANGED <<users, groups, user_list_copy, groups_list, num_groups,
                   user, current_group, split_of>>

(* Lines 192, 219: the loop test fails, groups_list is returned. *)
Return ==
    /\ pc = "while"
    /\ ~(num_groups <= groups - 1)
    /\ pc' = "done"
    /\ UNCHANGED <<users, groups, user_list_copy, groups_list, num_groups,
                   user, current_group, iterations, split_of>>

(* Lines 195-203: the candidate group is pulled out of the pool. *)
Assemble ==
    /\ pc = "for"
    /\ LET view == Sorted(user_list_copy,
                          [other_user \in Range(user_list_copy) |->
                              Distance(user.latlon, other_user.latlon)])
           out == ForLoop(view, user_list_copy)
       IN  /\ current_group' = out[1]
           /\ user_list_copy' = out[2]
    /\ pc' = "if"
    /\ UNCHANGED <<users, groups, groups_list, num_groups, user, iterations,
                   split_of>>

(* The test of line 204 without its size condition. *)
FilledNonEmpty(group) == group # <<>>

(* The test of line 204. *)
Filled(group) == group # <<>> /\ Len(group) >= num_per_group

(* Lines 204-206: the candidate becomes a new group. *)
Finalize ==
    /\ pc = "if"
    /\ Filled(current_group)
    /\ groups_list' = Append(groups_list, current_group)
    /\ split_of' = Append(split_of, 0)
    /\ num_groups' = num_groups + 1
    /\ pc' = "while"
    /\ UNCHANGED <<users, groups, user_list_copy, user, current_group, iterations>>

(* The test of line 213 on the merged group. *)
Oversized(group) == 2 * Len(group) >= num_per_group * 3

(* The split without the del of line 215. *)
SplitKeepsTail(gl) ==
    Append(gl, SliceFrom(gl[Len(gl)], num_per_group))

(* The split without the append of line 216. *)
SplitDropsTail(gl) ==
    [gl EXCEPT ![Len(gl)] = SliceTo(gl[Len(gl)], num_per_group)]

(* Lines 214-216: the groups after the split of the last one. *)
Split(gl) ==
    LET last == gl[Len(gl)]
        splitting_group == SliceFrom(last, num_per_group)
    IN  Append([gl EXCEPT ![Len(gl)] = SliceTo(last, num_per_group)],
               splitting_group)

(* Lines 207-217: the candidate is merged into the last group, which is    *)
(* split when it got too big; groups_list[-1] raises IndexError on an      *)
(* empty groups_list.                                                      *)
Merge ==
    /\ pc = "if"
    /\ ~Filled(current_group)
    /\ IF groups_list = <<>>
       THEN /\ pc' = "error"
            /\ UNCHANGED <<groups_list, num_groups, split_of>>
       ELSE LET merged == [groups_list EXCEPT ![Len(groups_list)] = @ \o current_group]
                last == merged[Len(merged)]
            IN  /\ pc' = "while"
                /\ IF Oversized(last)
                   THEN /\ groups_list' = Split(merged)
                        /\ split_of' = Append(split_of, Len(last))
                        /\ num_groups' = num_groups + 1
                   ELSE /\ groups_list' = merged
                        /\ UNCHANGED <<num_groups, split_of>>
    /\ UNCHANGED <<users, groups, user_list_copy, user, current_group, iterations>>

Next ==
    \/ SortUsers
    \/ SelectSeed
    \/ SeedIndexError
    \/ Return
    \/ Assemble
    \/ Finalize
    \/ Merge

Spec == Init /\ [][Next]_vars


(***************************************************************************)
(* Properties                                                              *)
(***************************************************************************)

Min(a, b) == IF a <= b THEN a ELSE b

(* k = ceil(record count / target_group_count): the least k with           *)
(* k * groups >= record count.                                             *)
TargetSize ==
    CHOOSE k \in 0..Len(users) :
        /\ k * groups >= Len(users)
        /\ \A m \in 0..(k - 1) : m * groups < Len(users)

Terminated == pc \in {"done", "error"}

(* The places of record u in the returned groups. *)
Places(u) ==
    {<<i, j>> \in (DOMAIN groups_list) \X (1..(MaxUsers + 1)) :
        j \in DOMAIN groups_list[i] /\ groups_list[i][j] = u}

(* C1: when __build_groups returns, every input record is in exactly one   *)
(* returned group, the groups hold nothing but input records, no group is  *)
(* empty and no record is left in the unassigned pool.                     *)
C1_Partition ==
    pc = "done" =>
        /\ \A u \in Range(users) : Cardinality(Places(u)) = 1
        /\ \A i \in DOMAIN groups_list : Range(groups_list[i]) \subseteq Range(users)
        /\ \A i \in DOMAIN groups_list : groups_list[i] # <<>>
        /\ user_list_copy = <<>>

(* C1 witness: a return of two groups, the second made by merge and split. *)
C1_Witness ==
    /\ pc = "done"
    /\ Len(groups_list) = 2
    /\ split_of[2] > 0

(* C2: for a non-empty record list and target_group_count >= 1 the builder *)
(* never fails (no IndexError on the seed lookup or on the merge).         *)
C2_Totality == users # <<>> => pc # "error"

(* C3: when __build_groups returns, a group not made by the split has size *)
(* s with k <= s < 1.5 * k, and a group made by the split has size at most *)
(* (size of the merged group before the split) - k.                        *)
C3_Sizes ==
    pc = "done" =>
        \A i \in DOMAIN groups_list :
            IF split_of[i] > 0
            THEN Len(groups_list[i]) <= split_of[i] - TargetSize
            ELSE /\ TargetSize <= Len(groups_list[i])
                 /\ 2 * Len(groups_list[i]) < 3 * TargetSize

(* C3 witness: a return that holds a group made by the split and a group   *)
(* that was not.                                                           *)
C3_Witness ==
    /\ pc = "done"
    /\ \E i \in DOMAIN groups_list : split_of[i] > 0
    /\ \E i \in DOMAIN groups_list : split_of[i] = 0

RECURSIVE SumLen(_)
SumLen(gl) == IF gl = <<>> THEN 0 ELSE Len(Head(gl)) + SumLen(Tail(gl))

(* C4: with 5 records and target_group_count = 2 the builder returns, the  *)
(* sizes of the returned groups sum to 5, a group smaller than 3 was made  *)
(* by the merge/split path, and no group has 4.5 members or more.          *)
C4_FiveRecordsTwoGroups ==
    (Len(users) = 5 /\ groups = 2 /\ Terminated) =>
        /\ pc = "done"
        /\ SumLen(groups_list) = 5
        /\ \A i \in DOMAIN groups_list :
              /\ Len(groups_list[i]) < 3 => split_of[i] > 0
              /\ 2 * Len(groups_list[i]) < 9

(* C5: in every iteration the seed is the first record of the unassigned   *)
(* pool, which is in longitude-ascending order.                            *)
C5_SeedIsFirstUnassigned == pc = "for" => user = user_list_copy[1]

(* Record P[i] comes before P[j] in the order "distance to the seed        *)
(* ascending, ties in pool order".                                         *)
Nearer(P, i, j) ==
    LET di == Distance(user.latlon, P[i].latlon)
        dj == Distance(user.latlon, P[j].latlon)
    IN  di < dj \/ (di = dj /\ i < j)

(* C6: the candidate built from pool P holds exactly the min(k+1, |P|)     *)
(* records of P nearest to the seed, in that order, never more than k+1,   *)
(* and exactly those records leave the pool, the others keeping their      *)
(* order.                                                                  *)
C6_CandidateAssembly ==
    [][pc = "for" =>
        LET P == user_list_copy
            G == current_group'
            taken == {i \in DOMAIN P : P[i] \in Range(G)}
        IN  /\ Len(G) = Min(TargetSize + 1, Len(P))
            /\ Len(G) <= TargetSize + 1
            /\ Cardinality(taken) = Len(G)
            /\ \A i \in taken : \A j \in DOMAIN P \ taken : Nearer(P, i, j)
            /\ \A a \in DOMAIN G : \A b \in DOMAIN G :
                  a < b => \E i \in taken : \E j \in taken :
                              P[i] = G[a] /\ P[j] = G[b] /\ Nearer(P, i, j)
            /\ user_list_copy' = SelectSeq(P, LAMBDA u : u \notin Range(G))
    ]_vars

(* C6 witness: a candidate of k+1 records was pulled, in an order that is  *)
(* not the pool order, and records stay in the pool.                       *)
C6_Witness ==
    /\ pc = "if"
    /\ Len(current_group) = TargetSize + 1
    /\ user_list_copy # <<>>
    /\ \E a \in DOMAIN current_group : \E b \in DOMAIN current_group :
          a < b /\ current_group[a].id > current_group[b].id

(* C7: a candidate of fewer than k records has taken every unassigned      *)
(* record: the pool is empty when the merge branch starts and after it.    *)
C7_UndersizedIsRemainder ==
    [][(pc = "if" /\ Len(current_group) < TargetSize) =>
          (user_list_copy = <<>> /\ user_list_copy' = <<>>)]_vars

(* C7 witness: the merge branch has run on an undersized candidate. *)
C7_Witness ==
    /\ pc = "while"
    /\ current_group # <<>>
    /\ Len(current_group) < TargetSize
    /\ user_list_copy = <<>>

(* C8: the first candidate has at least k records, and whenever the merge  *)
(* branch is taken a finalized group exists (no IndexError on              *)
(* groups_list[-1]).                                                       *)
C8_MergeHasPrevious ==
    /\ (pc = "if" /\ iterations = 1) => Len(current_group) >= TargetSize
    /\ (pc = "if" /\ ~Filled(current_group)) => groups_list # <<>>

(* C8 witness: the merge branch is about to run. *)
C8_Witness ==
    /\ pc = "if"
    /\ ~Filled(current_group)
    /\ Len(groups_list) = 1

(* C9: at the end of every iteration the number of finalized groups is     *)
(* num_groups, and a return returns exactly target_group_count groups.     *)
C9_GroupCount ==
    /\ pc = "while" => Len(groups_list) = num_groups
    /\ pc = "done" => Len(groups_list) = groups

(* C9 witness: a return after a merge with split. *)
C9_Witness ==
    /\ pc = "done"
    /\ groups = 2
    /\ num_groups = 2
    /\ iterations = 2

(* Position of the control point inside one iteration of the loop. *)
PcRank ==
    CASE pc = "start" -> 1
      [] pc = "while" -> 0
      [] pc = "for" -> 2
      [] pc = "if" -> 1
      [] OTHER -> -1

(* Decreases with every step as long as the loop body is entered at most   *)
(* (record count + 1) times; never below -1.                               *)
Measure == 3 * (Len(users) + 1 - iterations) + PcRank

(* C10: every iteration that finds its seed takes at least one record out  *)
(* of the pool, the loop body is entered at most (record count + 1) times, *)
(* after which the builder has returned or raised, and every step of the   *)
(* builder lowers a measure that is bounded below: it cannot run forever.  *)
C10_Termination ==
    /\ [][pc = "for" => Len(user_list_copy') < Len(user_list_copy)]_vars
    /\ [](iterations <= Len(users) + 1)
    /\ [][Measure' < Measure]_vars
    /\ [](Measure >= -1)
    /\ [](iterations = Len(users) + 1 => Terminated)

(* C10 witness: a run that ended after three entries of the loop body. *)
C10_Witness ==
    /\ Terminated
    /\ iterations = 3

====
